---- MODULE Spec2Model ----
(***************************************************************************)
(* Model of the live-frame dispatch pipeline and the alert evaluator of    *)
(* src/server.js: the 'frame' socket handler, processFrameAndEmit with its *)
(* three suspension points (inference call, overlay render, heatmap        *)
(* render), the /predict route's alert check, 'updateThreshold', the       *)
(* 'testModel' and 'processVideoFrame' handlers, and drawDotsOnImage.      *)
(*                                                                         *)
(* Node runs every handler to its next await without interleaving, so one  *)
(* action is one handler run from its resumption to its next suspension.   *)
(* Time is in milliseconds, as Date.now() returns it.                      *)
(***************************************************************************)
EXTENDS Integers, Sequences, FiniteSets, Bags, TLC

\* ---------------------------------------------------------------- constants
MAX_CONCURRENT == 2
ALERT_COOLDOWN == 5 * 60 * 1000
DefaultThreshold == 15
QueueLimit == 60

\* ------------------------------------------------------------------- bounds
\* Frames admitted under SpecDispatch, Spec and FairDispatch.
MaxFrames == 4
AlertFrames == 1
LiveFrames == 3
\* Clock advances under Spec, and /predict requests suspended at once.
MaxTicks == 2
MaxPredict == 1
\* Date.now() when the server starts: any instant later than ALERT_COOLDOWN.
StartTime == 1000000
\* Frames admitted or rejected, and frames completed, under SpecBacklog.
BacklogFrames == 65
BacklogCompleted == 1
\* Frames admitted under SpecSide, and testModel / processVideoFrame calls
\* suspended at once.
SideFrames == 3
MaxSide == 1
\* Frames admitted under SpecThreshold.
ThresholdFrames == 2
\* Detections handed to one drawDotsOnImage call.
MaxDets == 2

\* ------------------------------------------------------------ input domains
Sockets == {"s1", "s2"}
\* data.imageBase64 of a 'frame' event: "none" is a missing payload or a falsy
\* field, "str" a string, "bad" a truthy value Buffer.from rejects (a number).
FrameData == {"none", "str", "bad"}
\* An absent count_objects / an absent threshold field.
None == -1
\* parseInt of a non-numeric string.
NaN == -999999
\* The service's answer: count_objects (None when omitted) and the number of
\* detections in predictions.predictions.
Responses ==
  { [co |-> None, np |-> 2], [co |-> 0, np |-> 16], [co |-> 6, np |-> 0] }
\* data of an 'updateThreshold' event: no field, an integer, or a string that
\* does not start with a number.
ThresholdData ==
  { [k |-> "none", v |-> 0], [k |-> "int", v |-> 0], [k |-> "int", v |-> 5],
    [k |-> "text", v |-> 0] }
\* How far the clock moves between two handler runs.
TickSteps == {1, ALERT_COOLDOWN}
\* The detections handed to drawDotsOnImage: null, or an object whose x and y
\* are absent (None), 0 or a coordinate and whose width and height are
\* numbers. The sizes are such that sqrt(width * height) / 5 is an integer:
\* 0 (below the lower clamp), 8 (between the clamps), 40 (above the upper).
Coordinates == {None, 0, 40}
Sizes == { << 0, 0 >>, << 20, 80 >>, << 200, 200 >> }
Detections ==
  { [isNull |-> TRUE, x |-> None, y |-> None, width |-> 0, height |-> 0] }
  \cup { [isNull |-> FALSE, x |-> x, y |-> y, width |-> s[1], height |-> s[2]] :
           x \in Coordinates, y \in Coordinates, s \in Sizes }
RenderInputs == UNION { [1..n -> Detections] : n \in 0..MaxDets }
\* The awaits a handler can be suspended at.
Awaits == {"infer", "draw", "heatmap"}
\* The two request/response socket events, and the awaits of their handlers.
SideRoutes == {"testModel", "processVideoFrame"}
SideAwaits == {"infer", "draw"}
\* What a suspended testModel / processVideoFrame call holds: its socket, the
\* await it is at, and the count it computed (0 until the call returned).
SideKeys ==
  [route : SideRoutes, sock : Sockets, pc : SideAwaits, count : {0, 2, 6, 16}]

VARIABLES
  inFlight,        \* let inFlight
  queue,           \* const queue: entries [socket, frameBase64, id]
  ALERT_THRESHOLD, \* let ALERT_THRESHOLD
  lastAlertTime,   \* let lastAlertTime
  now,             \* the value Date.now() returns
  proc,            \* suspended processFrameAndEmit calls: id -> [pc, count]
  predict,         \* suspended /predict requests: await -> how many
  nextId,          \* number the next admitted frame gets (history)
  ticks,           \* clock advances so far (history)
  acks,            \* id -> ack events sent for the frame (history)
  incs,            \* id -> inFlight++ executed for the frame (history)
  decs,            \* id -> inFlight-- executed for the frame (history)
  preds,           \* id -> broadcast prediction events of the frame (history)
  queued,          \* ids in the order they were pushed on the queue (history)
  dispatched,      \* ids in the order inFlight++ ran for them (history)
  alertLog,        \* the times of the alert broadcasts, in order (history)
  out,             \* events emitted by the last handler run
  req,             \* the input the last handler run was given (history)
  side,            \* suspended testModel / processVideoFrame calls: a bag of keys
  render,          \* a drawDotsOnImage call: [predictions, canvas, done]
  decided          \* id -> the frame's alert decision, where logged (history)

vars ==
  << inFlight, queue, ALERT_THRESHOLD, lastAlertTime, now, proc, predict,
     nextId, ticks, acks, incs, decs, preds, queued, dispatched,
     alertLog, out, req, side, render, decided >>

\* ------------------------------------------------------------------ events
\* to: "all" for io.emit, the socket for socket.emit, "http" for res.json.
\* frame: the frame (or /predict request) the event is about, 0 for none.
Ev(ev, to, frame, success, count, threshold, error) ==
  [ev |-> ev, to |-> to, frame |-> frame, success |-> success,
   count |-> count, threshold |-> threshold, error |-> error]

\* The input of a handler run: the socket event and its data, the answer an
\* inference call of the frame path resumed with, or the await of the frame
\* path that rejected.
NoThreshold == [k |-> "none", v |-> 0]
NoResponse == [co |-> None, np |-> 0]
Req(op, sock, data, th, resp) ==
  [op |-> op, sock |-> sock, data |-> data, th |-> th, resp |-> resp]
NoReq == Req("", "", "", NoThreshold, NoResponse)
NoRender == [predictions |-> <<>>, canvas |-> <<>>, done |-> FALSE]

\* a >= b in JavaScript, where either side may be NaN
GE(a, b) == a # NaN /\ b # NaN /\ a >= b

\* output.count_objects || predictions.length
FrameCount(resp) ==
  IF resp.co # None /\ resp.co # 0 THEN resp.co ELSE resp.np

\* output.count_objects ?? 0
PredictCount(resp) ==
  IF resp.co = None THEN 0 ELSE resp.co

\* Mutant: the cooldown test is dropped.
AlertFiresNoCooldown(count, threshold, t, lastT) == GE(count, threshold)

\* count >= ALERT_THRESHOLD && Date.now() - lastAlertTime > ALERT_COOLDOWN
AlertFires(count, threshold, t, lastT) ==
  GE(count, threshold) /\ t - lastT > ALERT_COOLDOWN

\* parseInt(data.threshold)
ParseInt(d) ==
  IF d.k = "int" THEN d.v ELSE NaN

\* ------------------------------------------- processFrameAndEmit, no await
\* The dispatcher's part of the state, threaded through the synchronous code.
Disp ==
  [inFlight |-> inFlight, queue |-> queue, proc |-> proc, out |-> <<>>,
   incs |-> incs, decs |-> decs, preds |-> preds, queued |-> queued,
   dispatched |-> dispatched]

\* io.emit('prediction', payload)
Broadcast(s, id, success, count, threshold) ==
  [s EXCEPT !.out = Append(@, Ev("prediction", "all", id, success, count,
                                 threshold, IF success THEN "" ELSE "err.message")),
            !.preds[id] = @ + 1]

RECURSIVE ProcessFrameAndEmit(_, _)
RECURSIVE Finally(_, _)

\* Mutant: one call at a time, whatever MAX_CONCURRENT is.
SlotsBusySerial(n) == n >= 1

\* Mutant: the slot test off by one, admitting a call at inFlight = MAX.
SlotsBusyOffByOne(n) == n > MAX_CONCURRENT

\* if (inFlight >= MAX_CONCURRENT)
SlotsBusy(n) == n >= MAX_CONCURRENT

\* Mutant: queue.pop(), taking the newest entry.
ShiftNewest(q) == [next |-> q[Len(q)], rest |-> SubSeq(q, 1, Len(q) - 1)]

\* queue.shift()
Shift(q) == [next |-> Head(q), rest |-> Tail(q)]

\* Mutant: the slot is released but the queue is not looked at.
FinallyNoDrain(s, id) ==
  [s EXCEPT !.inFlight = @ - 1, !.decs[id] = @ + 1]

\* finally { inFlight--; if (queue.length > 0 && inFlight < MAX_CONCURRENT) ... }
Finally(s, id) ==
  LET s1 == [s EXCEPT !.inFlight = @ - 1, !.decs[id] = @ + 1]
  IN IF Len(s1.queue) > 0 /\ s1.inFlight < MAX_CONCURRENT
       THEN LET sh == Shift(s1.queue)
            IN ProcessFrameAndEmit([s1 EXCEPT !.queue = sh.rest], sh.next)
       ELSE s1

\* Mutant: the frame is pushed twice.
EnqueueTwice(s, e) ==
  [s EXCEPT !.queue = Append(Append(@, e), e), !.queued = Append(@, e.id)]

\* queue.push({ socket, frameBase64 })
Enqueue(s, e) ==
  [s EXCEPT !.queue = Append(@, e), !.queued = Append(@, e.id)]

\* Mutant: a failed frame is reported and put back on the queue.
CatchRetry(s, id) ==
  Finally([Broadcast(s, id, FALSE, 0, 0) EXCEPT
             !.queue = Append(@, [socket |-> "s1", frameBase64 |-> "str", id |-> id]),
             !.queued = Append(@, id)], id)

\* Mutant: the failure path reports but never releases the slot.
CatchLeak(s, id) == Broadcast(s, id, FALSE, 0, 0)

\* Mutant: the failure path releases the slot but reports nothing.
CatchSilent(s, id) == Finally(s, id)

\* catch (err) { io.emit('prediction', {success: false, ...}) } finally {...}
Catch(s, id) == Finally(Broadcast(s, id, FALSE, 0, 0), id)

\* processFrameAndEmit up to its first await; Buffer.from throws at once on
\* a value that is no string, which runs catch and finally in the same step.
ProcessFrameAndEmit(s, e) ==
  IF SlotsBusy(s.inFlight)
    THEN Enqueue(s, e)
    ELSE LET s1 == [s EXCEPT !.inFlight = @ + 1,
                             !.incs[e.id] = @ + 1,
                             !.dispatched = Append(@, e.id)]
         IN IF e.frameBase64 = "bad"
              THEN Catch(s1, e.id)
              ELSE [s1 EXCEPT !.proc = (e.id :> [pc |-> "infer", count |-> 0]) @@ @]

Without(f, x) == [y \in DOMAIN f \ {x} |-> f[y]]

\* Writes a dispatcher state back to the variables.
Commit(s) ==
  /\ inFlight' = s.inFlight
  /\ queue' = s.queue
  /\ proc' = s.proc
  /\ out' = s.out
  /\ incs' = s.incs
  /\ decs' = s.decs
  /\ preds' = s.preds
  /\ queued' = s.queued
  /\ dispatched' = s.dispatched

InitFrame ==
  /\ inFlight = 0
  /\ queue = <<>>
  /\ ALERT_THRESHOLD = DefaultThreshold
  /\ lastAlertTime = 0
  /\ now = StartTime
  /\ proc = <<>>
  /\ predict = [pc \in Awaits |-> 0]
  /\ nextId = 1
  /\ ticks = 0
  /\ acks = <<>>
  /\ incs = <<>>
  /\ decs = <<>>
  /\ preds = <<>>
  /\ queued = <<>>
  /\ dispatched = <<>>
  /\ alertLog = <<>>
  /\ out = <<>>
  /\ req = NoReq
  /\ side = EmptyBag
  /\ decided = <<>>

Init ==
  /\ InitFrame
  /\ render = NoRender

\* ------------------------------------------------------------ socket 'frame'
\* socket.on('frame'): the two early returns, then ack and processFrameAndEmit.
BacklogFull(q) == Len(q) > QueueLimit

\* Mutant: the payload test is dropped.
NoFrameNever(data) == FALSE

\* !data || !data.imageBase64
NoFrame(data) == data = "none"

Frame(sock, data) ==
  /\ req' = Req("frame", sock, data, NoThreshold, NoResponse)
  /\ UNCHANGED << side, render, decided >>
  /\ UNCHANGED << ALERT_THRESHOLD, lastAlertTime, now, predict, ticks,
                  alertLog >>
  /\ IF NoFrame(data)
       THEN /\ out' = << Ev("prediction", sock, 0, FALSE, 0, 0, "No frame provided") >>
            /\ UNCHANGED << inFlight, queue, proc, nextId, acks, incs, decs,
                            preds, queued, dispatched >>
       ELSE IF BacklogFull(queue)
       THEN /\ out' = << Ev("prediction", sock, 0, FALSE, 0, 0,
                            "Server busy, frame dropped") >>
            /\ UNCHANGED << inFlight, queue, proc, nextId, acks, incs, decs,
                            preds, queued, dispatched >>
       ELSE LET id == nextId
                s0 == [Disp EXCEPT !.out = << Ev("ack", sock, id, TRUE, 0, 0, "") >>,
                                   !.incs = (id :> 0) @@ @,
                                   !.decs = (id :> 0) @@ @,
                                   !.preds = (id :> 0) @@ @]
            IN /\ Commit(ProcessFrameAndEmit(s0,
                          [socket |-> sock, frameBase64 |-> data, id |-> id]))
               /\ nextId' = id + 1
               /\ acks' = (id :> Cardinality({ i \in 1..Len(out') :
                                                 /\ out'[i].ev = "ack"
                                                 /\ out'[i].frame = id })) @@ acks

\* ------------------------------------------------------------- alert check
\* if (count >= ALERT_THRESHOLD && Date.now() - lastAlertTime > ALERT_COOLDOWN)
\*   { lastAlertTime = Date.now(); io.emit('alert', ...) }
\* Both Date.now() calls of one check read the same instant: a check whose
\* second read is later reaches the state of the same check run that much later.
AlertCheck(count) ==
  IF AlertFires(count, ALERT_THRESHOLD, now, lastAlertTime)
    THEN /\ lastAlertTime' = now
         /\ alertLog' = Append(alertLog, now)
    ELSE UNCHANGED << lastAlertTime, alertLog >>

AlertEvents(count, about) ==
  IF AlertFires(count, ALERT_THRESHOLD, now, lastAlertTime)
    THEN << Ev("alert", "all", about, TRUE, count, ALERT_THRESHOLD, "") >>
    ELSE <<>>

\* --------------------------------------- processFrameAndEmit, resumptions
\* callRoboflowWithBase64 returned: count, alert check, drawDotsOnImage begins.
InferReturnRun(id, resp) ==
  /\ req' = Req("inferReturn", "", "", NoThreshold, resp)
  /\ UNCHANGED << side, render >>
  /\ id \in DOMAIN proc
  /\ proc[id].pc = "infer"
  /\ AlertCheck(FrameCount(resp))
  /\ out' = AlertEvents(FrameCount(resp), id)
  /\ proc' = [proc EXCEPT ![id] = [pc |-> "draw", count |-> FrameCount(resp)]]
  /\ UNCHANGED << inFlight, queue, ALERT_THRESHOLD, now, predict, nextId, ticks,
                  acks, incs, decs, preds, queued, dispatched >>

InferReturn(id, resp) ==
  /\ InferReturnRun(id, resp)
  /\ UNCHANGED decided

\* The same handler run, with the decision of its alert check written to the
\* history: the threshold it was made against and whether the alert fired.
InferReturnLogged(id, resp) ==
  /\ InferReturnRun(id, resp)
  /\ decided' = (id :> [thr |-> ALERT_THRESHOLD,
                        alert |-> AlertFires(FrameCount(resp), ALERT_THRESHOLD,
                                             now, lastAlertTime)]) @@ decided

\* drawDotsOnImage returned: generateHeatmap begins.
DrawReturn(id) ==
  /\ req' = NoReq
  /\ UNCHANGED << side, render, decided >>
  /\ id \in DOMAIN proc
  /\ proc[id].pc = "draw"
  /\ out' = <<>>
  /\ proc' = [proc EXCEPT ![id].pc = "heatmap"]
  /\ UNCHANGED << inFlight, queue, ALERT_THRESHOLD, lastAlertTime, now, predict,
                  nextId, ticks, acks, incs, decs, preds, queued,
                  dispatched, alertLog >>

\* generateHeatmap returned: the payload is built, broadcast, then finally.
HeatmapReturn(id) ==
  /\ req' = NoReq
  /\ UNCHANGED << side, render, decided >>
  /\ id \in DOMAIN proc
  /\ proc[id].pc = "heatmap"
  /\ Commit(Finally(Broadcast([Disp EXCEPT !.proc = Without(proc, id)], id, TRUE,
                              proc[id].count, ALERT_THRESHOLD), id))
  /\ UNCHANGED << ALERT_THRESHOLD, lastAlertTime, now, predict, nextId,
                  ticks, acks, alertLog >>

\* The pending await rejects (the call fails or times out, the answer is
\* malformed, a render throws): catch, then finally.
FrameThrow(id) ==
  /\ req' = Req("reject", "", proc[id].pc, NoThreshold, NoResponse)
  /\ UNCHANGED << side, render, decided >>
  /\ id \in DOMAIN proc
  /\ Commit(Catch([Disp EXCEPT !.proc = Without(proc, id)], id))
  /\ UNCHANGED << ALERT_THRESHOLD, lastAlertTime, now, predict, nextId,
                  ticks, acks, alertLog >>

\* ------------------------------------------------------------ POST /predict
\* The route's requests carry no state of their own past the await they are
\* suspended at, so predict counts the requests suspended at each await.
Move(from, to) ==
  /\ predict[from] > 0
  /\ predict' = [predict EXCEPT ![from] = @ - 1, ![to] = @ + 1]

Leave(from) ==
  /\ predict[from] > 0
  /\ predict' = [predict EXCEPT ![from] = @ - 1]

PredictPending == predict["infer"] + predict["draw"] + predict["heatmap"]

\* if (!req.file) return 400; else the axios.post call begins.
PredictStart(hasFile) ==
  /\ req' = NoReq
  /\ UNCHANGED << side, render, decided >>
  /\ IF hasFile
       THEN /\ predict' = [predict EXCEPT !["infer"] = @ + 1]
            /\ out' = <<>>
       ELSE /\ out' = << Ev("response", "http", 0, FALSE, 0, 0, "No image uploaded") >>
            /\ UNCHANGED predict
  /\ UNCHANGED << inFlight, queue, ALERT_THRESHOLD, lastAlertTime, now, proc,
                  nextId, ticks, acks, incs, decs, preds, queued, dispatched,
                  alertLog >>

\* axios.post returned: count, alert check, drawDotsOnImage begins.
PredictInferReturn(resp) ==
  /\ req' = NoReq
  /\ UNCHANGED << side, render, decided >>
  /\ Move("infer", "draw")
  /\ AlertCheck(PredictCount(resp))
  /\ out' = AlertEvents(PredictCount(resp), 0)
  /\ UNCHANGED << inFlight, queue, ALERT_THRESHOLD, now, proc, nextId, ticks,
                  acks, incs, decs, preds, queued, dispatched >>

\* drawDotsOnImage returned: generateHeatmap begins.
PredictDrawReturn ==
  /\ req' = NoReq
  /\ UNCHANGED << side, render, decided >>
  /\ Move("draw", "heatmap")
  /\ out' = <<>>
  /\ UNCHANGED << inFlight, queue, ALERT_THRESHOLD, lastAlertTime, now, proc,
                  nextId, ticks, acks, incs, decs, preds, queued, dispatched,
                  alertLog >>

\* generateHeatmap returned: res.json({success: true, ...}).
PredictHeatmapReturn ==
  /\ req' = NoReq
  /\ UNCHANGED << side, render, decided >>
  /\ Leave("heatmap")
  /\ out' = << Ev("response", "http", 0, TRUE, 0, 0, "") >>
  /\ UNCHANGED << inFlight, queue, ALERT_THRESHOLD, lastAlertTime, now, proc,
                  nextId, ticks, acks, incs, decs, preds, queued, dispatched,
                  alertLog >>

\* The pending await rejects: catch, res.status(500).
PredictThrow(pc) ==
  /\ req' = NoReq
  /\ UNCHANGED << side, render, decided >>
  /\ Leave(pc)
  /\ out' = << Ev("response", "http", 0, FALSE, 0, 0, "err.message") >>
  /\ UNCHANGED << inFlight, queue, ALERT_THRESHOLD, lastAlertTime, now, proc,
                  nextId, ticks, acks, incs, decs, preds, queued, dispatched,
                  alertLog >>

\* -------------------------------------------------- socket 'updateThreshold'
\* data && data.threshold
Truthy(d) == d.k = "text" \/ (d.k = "int" /\ d.v # 0)

UpdateThreshold(sock, d) ==
  /\ req' = Req("updateThreshold", "", "", d, NoResponse)
  /\ UNCHANGED << side, render, decided >>
  /\ IF Truthy(d)
       THEN /\ ALERT_THRESHOLD' = ParseInt(d)
            /\ out' = << Ev("thresholdUpdated", "all", 0, TRUE, 0, ParseInt(d), "") >>
       ELSE /\ out' = <<>>
            /\ UNCHANGED ALERT_THRESHOLD
  /\ UNCHANGED << inFlight, queue, lastAlertTime, now, proc, predict, nextId,
                  ticks, acks, incs, decs, preds, queued, dispatched,
                  alertLog >>

\* ------------------------------ socket 'testModel' and 'processVideoFrame'
\* Both handlers have the same shape: the payload test, Buffer.from, the
\* inference call, the overlay render, one socket.emit; catch emits the failure.
SideEvent(route) ==
  IF route = "testModel" THEN "testPrediction" ELSE "processedVideoFrame"

NoData(route) ==
  IF route = "testModel" THEN "No test data provided" ELSE "No frame data provided"

\* testModel: output.count_objects || predictions.length
\* processVideoFrame: output.count_objects || 0
SideCount(route, resp) ==
  IF route = "testModel" THEN FrameCount(resp)
  ELSE IF resp.co # None /\ resp.co # 0 THEN resp.co ELSE 0

Key(route, sock, pc, count) ==
  [route |-> route, sock |-> sock, pc |-> pc, count |-> count]

\* Mutant: the handler's reply goes to every client.
SideReplyBroadcast(k, success, count, error) ==
  Ev(SideEvent(k.route), "all", 0, success, count, 0, error)

\* socket.emit('testPrediction' | 'processedVideoFrame', ...)
SideReply(k, success, count, error) ==
  Ev(SideEvent(k.route), k.sock, 0, success, count, 0, error)

frameVars ==
  << inFlight, queue, ALERT_THRESHOLD, lastAlertTime, now, proc, predict,
     nextId, ticks, acks, incs, decs, preds, queued, dispatched, alertLog,
     decided >>

\* The event arrives: the early return, a throwing Buffer.from, or the
\* inference call begins.
SideStart(route, sock, data) ==
  /\ req' = Req(route, sock, data, NoThreshold, NoResponse)
  /\ IF data = "none"
       THEN /\ out' = << SideReply(Key(route, sock, "infer", 0), FALSE, 0, NoData(route)) >>
            /\ UNCHANGED side
       ELSE IF data = "bad"
       THEN /\ out' = << SideReply(Key(route, sock, "infer", 0), FALSE, 0, "err.message") >>
            /\ UNCHANGED side
       ELSE /\ out' = <<>>
            /\ side' = side (+) SetToBag({Key(route, sock, "infer", 0)})
  /\ UNCHANGED << frameVars, render >>

\* callRoboflowWithBase64 returned: count, drawDotsOnImage begins.
SideInferReturn(k, resp) ==
  /\ BagIn(k, side)
  /\ k.pc = "infer"
  /\ req' = Req("sideReturn", k.sock, k.route, NoThreshold, resp)
  /\ side' = (side (-) SetToBag({k}))
               (+) SetToBag({Key(k.route, k.sock, "draw", SideCount(k.route, resp))})
  /\ out' = <<>>
  /\ UNCHANGED << frameVars, render >>

\* drawDotsOnImage returned: the success reply.
SideDrawReturn(k) ==
  /\ BagIn(k, side)
  /\ k.pc = "draw"
  /\ req' = NoReq
  /\ side' = side (-) SetToBag({k})
  /\ out' = << SideReply(k, TRUE, k.count, "") >>
  /\ UNCHANGED << frameVars, render >>

\* The pending await rejects: catch, the failure reply.
SideThrow(k) ==
  /\ BagIn(k, side)
  /\ req' = NoReq
  /\ side' = side (-) SetToBag({k})
  /\ out' = << SideReply(k, FALSE, 0, "err.message") >>
  /\ UNCHANGED << frameVars, render >>

\* --------------------------------------------------------- drawDotsOnImage
Min(a, b) == IF a < b THEN a ELSE b
Max(a, b) == IF a > b THEN a ELSE b
\* Math.sqrt, on the perfect squares the input domain produces
Sqrt(n) == CHOOSE r \in 0..n : r * r = n

\* Mutant: the radius is not clamped.
DotSizeUnclamped(pred) == Sqrt(pred.width * pred.height) \div 5

\* Math.min(20, Math.max(5, Math.sqrt(pred.width * pred.height) / 5))
DotSize(pred) == Min(20, Max(5, Sqrt(pred.width * pred.height) \div 5))

\* if (x && y), for a number or an absent field
Present(v) == v # None /\ v # 0

\* The body of predictions.forEach: reading pred.x of null throws, which the
\* inner catch swallows; otherwise the dot is drawn when x && y.
DrawOne(canvas, pred) ==
  IF pred.isNull THEN canvas
  ELSE IF Present(pred.x) /\ Present(pred.y)
    THEN Append(canvas, [x |-> pred.x, y |-> pred.y, r |-> DotSize(pred)])
    ELSE canvas

RECURSIVE ForEach(_, _)
ForEach(canvas, predictions) ==
  IF predictions = <<>> THEN canvas
  ELSE ForEach(DrawOne(canvas, Head(predictions)), Tail(predictions))

\* One call of drawDotsOnImage: the dots on the canvas, in drawing order.
DrawDotsOnImage ==
  /\ ~render.done
  /\ render' = [render EXCEPT !.canvas = ForEach(<<>>, render.predictions),
                              !.done = TRUE]
  /\ req' = NoReq
  /\ out' = <<>>
  /\ UNCHANGED << frameVars, side >>

\* ------------------------------------------------------------------- clock
Tick(d) ==
  /\ req' = NoReq
  /\ UNCHANGED << side, render, decided >>
  /\ d > 0
  /\ now' = now + d
  /\ ticks' = ticks + 1
  /\ out' = <<>>
  /\ UNCHANGED << inFlight, queue, ALERT_THRESHOLD, lastAlertTime, proc, predict,
                  nextId, acks, incs, decs, preds, queued, dispatched,
                  alertLog >>

\* ----------------------------------------------------------- specification
Next ==
  \/ \E sock \in Sockets, data \in FrameData :
       nextId <= AlertFrames /\ Frame(sock, data)
  \/ \E id \in DOMAIN proc, resp \in Responses : InferReturn(id, resp)
  \/ \E id \in DOMAIN proc : DrawReturn(id)
  \/ \E id \in DOMAIN proc : HeatmapReturn(id)
  \/ \E id \in DOMAIN proc : FrameThrow(id)
  \/ \E hasFile \in BOOLEAN : PredictPending < MaxPredict /\ PredictStart(hasFile)
  \/ \E resp \in Responses : PredictInferReturn(resp)
  \/ PredictDrawReturn
  \/ PredictHeatmapReturn
  \/ \E pc \in Awaits : PredictThrow(pc)
  \/ \E sock \in Sockets, d \in ThresholdData : UpdateThreshold(sock, d)
  \/ \E d \in TickSteps : ticks < MaxTicks /\ Tick(d)

Spec == Init /\ [][Next]_vars

\* The frame pipeline alone: every 'frame' input and every outcome of the
\* three awaits, with the clock and the threshold left as they start.
NextDispatch ==
  \/ \E sock \in Sockets, data \in FrameData :
       nextId <= MaxFrames /\ Frame(sock, data)
  \/ \E id \in DOMAIN proc, resp \in Responses : InferReturn(id, resp)
  \/ \E id \in DOMAIN proc : DrawReturn(id)
  \/ \E id \in DOMAIN proc : HeatmapReturn(id)
  \/ \E id \in DOMAIN proc : FrameThrow(id)

SpecDispatch == Init /\ [][NextDispatch]_vars

\* Frames that have left processFrameAndEmit.
Completed == (nextId - 1) - Len(queue) - Cardinality(DOMAIN proc)

\* One connection streaming frames faster than they complete, up to the
\* backlog limit: the inputs that fill the queue. Only the first few frames
\* complete while the burst lasts. A frame whose payload Buffer.from
\* rejects arrives only ahead of the backlog; malformed 'frame' events arrive
\* from any connection at any load.
NextBacklog ==
  \/ nextId <= BacklogFrames /\ Frame("s1", "str")
  \/ /\ nextId <= BacklogFrames
     /\ queue = <<>>
     /\ Completed < BacklogCompleted
     /\ Frame("s1", "bad")
  \/ \E sock \in Sockets : Frame(sock, "none")
  \/ \E id \in DOMAIN proc : InferReturn(id, [co |-> None, np |-> 2])
  \/ \E id \in DOMAIN proc : DrawReturn(id)
  \/ \E id \in DOMAIN proc : Completed < BacklogCompleted /\ HeatmapReturn(id)
  \/ \E id \in DOMAIN proc : Completed < BacklogCompleted /\ FrameThrow(id)

SpecBacklog == Init /\ [][NextBacklog]_vars

\* A burst of frames that arrives before the service answers any of them,
\* with testModel requests arriving from any connection and running to their
\* end at every load, from the idle server to the full backlog.
NextBusy ==
  \/ nextId <= BacklogFrames /\ Frame("s1", "str")
  \/ \E sock \in Sockets, data \in FrameData :
       BagCardinality(side) < MaxSide /\ SideStart("testModel", sock, data)
  \/ \E k \in BagToSet(side), resp \in Responses : SideInferReturn(k, resp)
  \/ \E k \in BagToSet(side) : SideDrawReturn(k)
  \/ \E k \in BagToSet(side) : SideThrow(k)

SpecBusy == Init /\ [][NextBusy]_vars

\* The frame pipeline together with the two request/response socket events.
\* The frames' counts play no part in them: one answer stands for all.
SideResponse == [co |-> None, np |-> 2]
NextSide ==
  \/ \E sock \in Sockets, data \in FrameData :
       nextId <= SideFrames /\ Frame(sock, data)
  \/ \E id \in DOMAIN proc : InferReturn(id, SideResponse)
  \/ \E id \in DOMAIN proc : DrawReturn(id)
  \/ \E id \in DOMAIN proc : HeatmapReturn(id)
  \/ \E id \in DOMAIN proc : FrameThrow(id)
  \/ \E route \in SideRoutes, sock \in Sockets, data \in FrameData :
       BagCardinality(side) < MaxSide /\ SideStart(route, sock, data)
  \/ \E k \in BagToSet(side), resp \in Responses : SideInferReturn(k, resp)
  \/ \E k \in BagToSet(side) : SideDrawReturn(k)
  \/ \E k \in BagToSet(side) : SideThrow(k)

SpecSide == Init /\ [][NextSide]_vars

\* The frame pipeline with the threshold changing under it: 'updateThreshold'
\* events, a negative threshold among them, between any two handler runs.
ThresholdInputs == ThresholdData \cup { [k |-> "int", v |-> -3] }

NextThreshold ==
  \/ \E sock \in Sockets, data \in FrameData :
       nextId <= ThresholdFrames /\ Frame(sock, data)
  \/ \E id \in DOMAIN proc, resp \in Responses : InferReturnLogged(id, resp)
  \/ \E id \in DOMAIN proc : DrawReturn(id)
  \/ \E id \in DOMAIN proc : HeatmapReturn(id)
  \/ \E id \in DOMAIN proc : FrameThrow(id)
  \/ \E sock \in Sockets, d \in ThresholdInputs : UpdateThreshold(sock, d)

SpecThreshold == Init /\ [][NextThreshold]_vars

\* drawDotsOnImage on its own: a call for every list of detections.
InitRender ==
  /\ InitFrame
  /\ render \in { [predictions |-> p, canvas |-> <<>>, done |-> FALSE] :
                    p \in RenderInputs }

NextRender == DrawDotsOnImage

SpecRender == InitRender /\ [][NextRender]_vars

\* The evaluator scenario: the threshold is set to 5, then five frames have
\* their counts evaluated 0, 1, 2, 150 and 151 seconds after the start.
ScenSetup == [k |-> "int", v |-> 5]
ScenTimes == << 0, 1, 2, 150, 151 >>
ScenCounts == << 3, 6, 7, 2, 8 >>
ScenAt(i) == StartTime + 1000 * ScenTimes[i]
\* The two shapes of answer that carry a count: explicit, or by detections.
ScenResponses(i) ==
  { [co |-> ScenCounts[i], np |-> 0], [co |-> None, np |-> ScenCounts[i]] }
\* Frames whose inference call has returned.
Evaluated ==
  Cardinality({ f \in 1..(nextId - 1) :
                  /\ \A i \in 1..Len(queue) : queue[i].id # f
                  /\ f \in DOMAIN proc => proc[f].pc # "infer" })

NextScenario ==
  \/ \E sock \in Sockets :
       /\ nextId = 1
       /\ ALERT_THRESHOLD = DefaultThreshold
       /\ UpdateThreshold(sock, ScenSetup)
  \/ \E sock \in Sockets :
       /\ ALERT_THRESHOLD = ScenSetup.v
       /\ nextId <= Len(ScenCounts)
       /\ Frame(sock, "str")
  \/ \E id \in DOMAIN proc :
       /\ Evaluated < Len(ScenCounts)
       /\ now = ScenAt(Evaluated + 1)
       /\ \E resp \in ScenResponses(Evaluated + 1) : InferReturn(id, resp)
  \/ /\ Evaluated \in 1..(Len(ScenTimes) - 1)
     /\ now = ScenAt(Evaluated)
     /\ Tick(ScenAt(Evaluated + 1) - now)
  \/ \E id \in DOMAIN proc : DrawReturn(id)
  \/ \E id \in DOMAIN proc : HeatmapReturn(id)
  \/ \E id \in DOMAIN proc : proc[id].pc # "infer" /\ FrameThrow(id)

SpecScenario == Init /\ [][NextScenario]_vars

\* Each dispatched frame runs until it has left processFrameAndEmit: every
\* await the code starts settles (the inference call within its 30 s timeout).
FrameStep(id) ==
  \/ \E resp \in Responses : InferReturn(id, resp)
  \/ DrawReturn(id)
  \/ HeatmapReturn(id)
  \/ FrameThrow(id)

AnyFrameStep == \E id \in DOMAIN proc : FrameStep(id)

\* Weak fairness of the suspended calls taken together: it holds whenever
\* each call's await settles, and it lets any one call wait for the others.
NextLive ==
  \/ \E sock \in Sockets, data \in FrameData :
       nextId <= LiveFrames /\ Frame(sock, data)
  \/ \E id \in DOMAIN proc, resp \in Responses : InferReturn(id, resp)
  \/ \E id \in DOMAIN proc : DrawReturn(id)
  \/ \E id \in DOMAIN proc : HeatmapReturn(id)
  \/ \E id \in DOMAIN proc : FrameThrow(id)

FairDispatch ==
  /\ Init
  /\ [][NextLive]_vars
  /\ WF_vars(AnyFrameStep)

\* ---------------------------------------------------------------- history
Admitted(f) == f \in 1..(nextId - 1)
InQueue(f) == \E i \in 1..Len(queue) : queue[i].id = f
InSlot(f) == f \in DOMAIN proc
Finished(f) == Admitted(f) /\ ~InQueue(f) /\ ~InSlot(f)
Released(f) == Admitted(f) /\ decs[f] = 1
IsDispatched(f) == \E i \in 1..Len(dispatched) : dispatched[i] = f
DispatchIndex(f) == CHOOSE i \in 1..Len(dispatched) : dispatched[i] = f
PredictionsOf(evs, success) ==
  { i \in 1..Len(evs) : evs[i].ev = "prediction" /\ evs[i].to = "all"
                        /\ evs[i].success = success }

\* ------------------------------------------------------------------ claims
\* C1: inFlight never exceeds MAX_CONCURRENT, and neither does the number of
\* suspended processFrameAndEmit calls: the slot is taken in the step of the test.
C1_SlotBound ==
  /\ inFlight <= MAX_CONCURRENT
  /\ Cardinality(DOMAIN proc) <= MAX_CONCURRENT

\* A frame arrived while every slot was taken and was queued.
C1_Witness == inFlight = MAX_CONCURRENT /\ Len(queue) > 0

\* C4: a dispatched frame is counted in inFlight once and released once, on
\* success and on failure; a queued frame is not counted; inFlight is never
\* negative and equals the number of frames between dispatch and completion.
C4_ReleaseOnce ==
  /\ inFlight >= 0
  /\ inFlight = Cardinality(DOMAIN proc)
  /\ \A f \in 1..(nextId - 1) :
       /\ InQueue(f) => incs[f] = 0 /\ decs[f] = 0
       /\ InSlot(f) => incs[f] = 1 /\ decs[f] = 0
       /\ Finished(f) => incs[f] = 1 /\ decs[f] = 1

\* A frame has failed and released its slot, and the frame queued behind it
\* took the slot in the same step.
C4_Witness ==
  /\ \E i \in PredictionsOf(out, FALSE) : decs[out[i].frame] = 1
  /\ \E f \in 1..(nextId - 1) : decs[f] = 1 /\ IsDispatched(f) /\ InSlot(f) = FALSE
  /\ \E f \in DOMAIN proc : \E i \in 1..Len(queued) : queued[i] = f
  /\ inFlight = MAX_CONCURRENT

\* C5: of two frames that were both queued, the one queued earlier is
\* dispatched (leaves the queue and takes a slot) before the one queued later.
C5_Fifo ==
  \A i, j \in 1..Len(queued) :
    (i < j /\ IsDispatched(queued[j])) =>
      /\ IsDispatched(queued[i])
      /\ DispatchIndex(queued[i]) < DispatchIndex(queued[j])

\* Two frames were queued and both have been dispatched.
C5_Witness ==
  /\ Len(queued) >= 2
  /\ IsDispatched(queued[1])
  /\ IsDispatched(queued[2])

\* No slot is held, nothing is queued, and every admitted frame has been
\* dispatched and has released its slot.
AtRest ==
  /\ inFlight = 0
  /\ queue = <<>>
  /\ \A f \in 1..(nextId - 1) : IsDispatched(f) /\ Released(f)

\* C6: every admitted frame is eventually dispatched and releases its slot,
\* whatever its awaits do: once submissions stop the dispatcher comes to rest
\* for good, with no slot held, nothing queued and every frame released.
C6_Liveness == <>[]AtRest

\* A queued frame was dispatched after a failure and has released its slot.
C6_Witness ==
  /\ Len(queued) > 0
  /\ Released(queued[1])
  /\ PredictionsOf(out, FALSE) # {}
  /\ inFlight = 0
  /\ queue = <<>>

\* The first three frames arrived before any frame completed.
ThreeBackToBack ==
  /\ nextId = 4
  /\ \A f \in 1..3 : decs[f] = 0

\* C7: a frame has exactly one broadcast prediction once it has completed and
\* none before, and every admitted frame gets there. With three frames back to
\* back, 1 and 2 hold the slots and 3 waits; 3 is dispatched in the step in
\* which 1 or 2 completes.
C7_Safety ==
  /\ \A f \in 1..(nextId - 1) :
       /\ preds[f] <= 1
       /\ Finished(f) <=> preds[f] = 1
  /\ ThreeBackToBack =>
       /\ DOMAIN proc = {1, 2}
       /\ Len(queue) = 1
       /\ queue[1].id = 3
       /\ dispatched = << 1, 2 >>
  /\ (nextId >= 4 /\ (decs[1] = 1 \/ decs[2] = 1)) => IsDispatched(3)

\* C7, with the part only fairness gives: in the end every admitted frame
\* has its one broadcast prediction.
C7_ExactlyOne ==
  /\ []C7_Safety
  /\ <>[](\A f \in 1..(nextId - 1) : preds[f] = 1)

\* Three frames, the third queued behind the first two, all completed with
\* three broadcasts in total.
C7_Witness ==
  /\ nextId = 4
  /\ queued = << 3 >>
  /\ \A f \in 1..3 : Finished(f)
  /\ preds[1] + preds[2] + preds[3] = 3

\* C2: the queue never holds more than 60 frames.
C2_BacklogBound == Len(queue) <= QueueLimit

\* The last handler run was a 'frame' event: it alone emits to one socket.
FrameHandled(evs) == evs # <<>> /\ evs[1].to \in Sockets

\* C3: a frame submitted while 60 frames are queued and every slot is busy
\* gets a targeted prediction{success:false} and no ack, and leaves the queue
\* and inFlight as they were.
C3_RejectAtSixty ==
  [][(Len(queue) = QueueLimit /\ inFlight = MAX_CONCURRENT /\ FrameHandled(out'))
       => /\ Len(out') = 1
          /\ out'[1].ev = "prediction"
          /\ out'[1].success = FALSE
          /\ out'[1].to \in Sockets
          /\ Len(queue') = Len(queue)
          /\ inFlight' = inFlight]_vars

\* C8: two consecutive alert broadcasts are at least ALERT_COOLDOWN apart,
\* whichever of the frame path and /predict raised them.
C8_CooldownSafety ==
  \A i \in 1..(Len(alertLog) - 1) : alertLog[i + 1] - alertLog[i] >= ALERT_COOLDOWN

AlertsIn(evs) == { i \in 1..Len(evs) : evs[i].ev = "alert" /\ evs[i].to = "all" }

\* A second alert has just been broadcast, for a frame, after an earlier one.
C8_Witness ==
  /\ Len(alertLog) >= 2
  /\ \E i \in AlertsIn(out) : out[i].frame # 0

\* C9: with threshold 5 and counts 3, 6, 7, 2, 8 evaluated at 0, 1, 2, 150
\* and 151 s, the only alert is the one of the second evaluation, at 1 s.
C9_Scenario ==
  /\ Evaluated < 2 => alertLog = <<>>
  /\ Evaluated >= 2 => alertLog = << ScenAt(2) >>

\* All five counts have been evaluated.
C9_Witness ==
  /\ Evaluated = Len(ScenCounts)
  /\ now = ScenAt(5)
  /\ alertLog = << ScenAt(2) >>

\* In this step the inference call of frame id returned and its count was
\* checked against the threshold.
FrameEvaluated(id) ==
  /\ id \in DOMAIN proc
  /\ proc[id].pc = "infer"
  /\ id \in DOMAIN proc'
  /\ proc'[id].pc = "draw"

\* C10: a count >= threshold evaluated when now - lastAlertTime >=
\* ALERT_COOLDOWN, equality included, raises an alert and sets lastAlertTime
\* to now.
C10_RearmAtCooldown ==
  [][\A id \in DOMAIN proc :
       ( /\ FrameEvaluated(id)
         /\ GE(proc'[id].count, ALERT_THRESHOLD)
         /\ now - lastAlertTime >= ALERT_COOLDOWN )
       => /\ lastAlertTime' = now
          /\ AlertsIn(out') # {}]_vars

\* C11: an 'updateThreshold' event carrying an integer, 0 included, sets
\* ALERT_THRESHOLD to it and broadcasts thresholdUpdated with the new value,
\* and every alert raised afterwards was decided against the value in force.
C11_EveryIntegerApplies ==
  [][/\ (req'.op = "updateThreshold" /\ req'.th.k = "int")
          => /\ ALERT_THRESHOLD' = req'.th.v
             /\ out' = << Ev("thresholdUpdated", "all", 0, TRUE, 0, req'.th.v, "") >>
     /\ \A i \in AlertsIn(out') :
          /\ out'[i].threshold = ALERT_THRESHOLD
          /\ GE(out'[i].count, ALERT_THRESHOLD)]_vars

\* In this step the inference call of frame id rejected (failed or timed out).
InferenceFailed(id) ==
  /\ id \in DOMAIN proc
  /\ proc[id].pc = "infer"
  /\ id \notin DOMAIN proc'

FrameCalls == Cardinality({ f \in DOMAIN proc : proc[f].pc = "infer" })
SideCalls ==
  BagCardinality([k \in { x \in BagToSet(side) : x.pc = "infer" } |-> side[k]])

\* C15 as stated: the inference calls outstanding in the whole process, the
\* ones of testModel and processVideoFrame included, never exceed MAX_CONCURRENT.
C15_AllCallsBounded == FrameCalls + SideCalls <= MAX_CONCURRENT

\* C15, amended: the inference calls outstanding on the frame path never
\* exceed MAX_CONCURRENT, whatever testModel and processVideoFrame events
\* interleave; those two handlers call the service outside the slot pool.
C15_FrameCallsBounded ==
  /\ FrameCalls <= MAX_CONCURRENT
  /\ FrameCalls <= inFlight

\* Every slot holds a frame waiting for the service while a testModel or
\* processVideoFrame call waits for it too.
C15_Witness ==
  /\ FrameCalls = MAX_CONCURRENT
  /\ SideCalls >= 1

\* C13: a 'frame' event without a payload or without imageBase64 gets one
\* targeted prediction{success:false} and nothing else: no ack, no broadcast,
\* and inFlight, the queue, the suspended frames and the alert state stay as
\* they were, whatever the load.
C13_MalformedRejected ==
  [][(req'.op = "frame" /\ req'.data = "none")
       => /\ out' = << Ev("prediction", req'.sock, 0, FALSE, 0, 0,
                          "No frame provided") >>
          /\ UNCHANGED << inFlight, queue, proc, nextId, acks, incs, decs, preds,
                          queued, dispatched, ALERT_THRESHOLD, lastAlertTime,
                          alertLog >>]_vars

\* A malformed 'frame' event of the second connection was answered while
\* every slot was busy and the backlog was full.
C13_Witness ==
  /\ req.op = "frame"
  /\ req.data = "none"
  /\ req.sock = "s2"
  /\ Len(out) = 1
  /\ out[1].to = "s2"
  /\ out[1].success = FALSE
  /\ inFlight = MAX_CONCURRENT
  /\ BacklogFull(queue)

AcksIn(evs) == { i \in 1..Len(evs) : evs[i].ev = "ack" }

\* C14: a 'frame' event that is admitted (dispatched at once or queued) gets
\* exactly one ack{received:true}, sent to the submitting socket alone and
\* ahead of anything broadcast about the frame; a rejected or malformed
\* submission gets none, and no other handler run emits an ack. Every frame
\* that has a broadcast prediction has had its one ack.
C14_AckOncePerAdmission ==
  [][/\ (req'.op = "frame" /\ nextId' = nextId + 1)
          => /\ req'.data # "none"
             /\ AcksIn(out') = {1}
             /\ out'[1] = Ev("ack", req'.sock, nextId, TRUE, 0, 0, "")
             /\ \/ \E i \in 1..Len(queue') : queue'[i].id = nextId
                \/ \E i \in 1..Len(dispatched') : dispatched'[i] = nextId
     /\ (req'.op = "frame" /\ nextId' = nextId)
          => /\ AcksIn(out') = {}
             /\ req'.data = "none" \/ Len(queue) >= QueueLimit
     /\ req'.op # "frame" => AcksIn(out') = {}
     /\ \A f \in 1..(nextId' - 1) :
          /\ acks'[f] = 1
          /\ \A i \in 1..Len(out') :
               (out'[i].ev = "prediction" /\ out'[i].frame = f)
                 => f < nextId \/ i > 1]_vars

\* A submission has just been rejected for the full backlog, without an ack,
\* after each of the frames admitted before it, dispatched or queued, had its
\* one ack.
C14_Witness ==
  /\ req.op = "frame"
  /\ req.data = "str"
  /\ Len(out) = 1
  /\ out[1].ev = "prediction"
  /\ out[1].to = req.sock
  /\ AcksIn(out) = {}
  /\ BacklogFull(queue)
  /\ nextId - 1 = MAX_CONCURRENT + Len(queue)
  /\ \A f \in 1..(nextId - 1) : acks[f] = 1

\* This step is a run of the testModel handler: the event arrives, or a
\* suspended testModel call resumes.
TestModelStarts == req'.op = "testModel"
TestModelRuns == TestModelStarts \/ side' # side

\* C16: a run of the testModel handler leaves inFlight, the queue, the
\* suspended frames and the alert state alone and broadcasts nothing; a request
\* with a payload is taken on at any load, and every request ends with exactly
\* one testPrediction, success or failure, sent to the requesting socket.
C16_TestModelInline ==
  [][TestModelRuns =>
       /\ UNCHANGED frameVars
       /\ Len(out') <= 1
       /\ \A i \in 1..Len(out') :
            /\ out'[i].ev = "testPrediction"
            /\ out'[i].to \in Sockets
       /\ BagCardinality(side') =
            BagCardinality(side) + (IF TestModelStarts THEN 1 ELSE 0) - Len(out')
       /\ (TestModelStarts /\ req'.data = "str")
            => /\ out' = <<>>
               /\ side' = side (+) SetToBag({Key("testModel", req'.sock, "infer", 0)})
       /\ (TestModelStarts /\ req'.data # "str")
            => /\ Len(out') = 1
               /\ out'[1].to = req'.sock
               /\ out'[1].success = FALSE
       /\ (~TestModelStarts /\ Len(out') = 1)
            => \E k \in BagToSet(side) :
                 /\ side' = side (-) SetToBag({k})
                 /\ out'[1].to = k.sock]_vars

\* A testModel request of the second connection was taken on, its inference
\* call begun, while both slots were busy and the backlog was full.
C16_Witness ==
  /\ req.op = "testModel"
  /\ req.sock = "s2"
  /\ req.data = "str"
  /\ out = <<>>
  /\ BagIn(Key("testModel", "s2", "infer", 0), side)
  /\ inFlight = MAX_CONCURRENT
  /\ BacklogFull(queue)

\* C17: the count of a frame is the service's count_objects whenever the
\* answer carries one, an explicit 0 included, and the number of detections
\* only when it carries none; it is never negative, and it is the count the
\* frame's prediction is broadcast with.
C17_ExplicitCountWins ==
  [][/\ \A id \in DOMAIN proc :
          FrameEvaluated(id) =>
            /\ req'.op = "inferReturn"
            /\ proc'[id].count =
                 (IF req'.resp.co # None THEN req'.resp.co ELSE req'.resp.np)
            /\ proc'[id].count >= 0
     /\ \A i \in PredictionsOf(out', TRUE) :
          /\ out'[i].frame \in DOMAIN proc
          /\ out'[i].count = proc[out'[i].frame].count]_vars

Clamp(v, lo, hi) == IF v < lo THEN lo ELSE IF v > hi THEN hi ELSE v

\* The detections of the rendered list that have both coordinates.
Drawable ==
  { i \in 1..Len(render.predictions) :
      /\ ~render.predictions[i].isNull
      /\ render.predictions[i].x \notin {None, 0}
      /\ render.predictions[i].y \notin {None, 0} }

QueueCopies(f) == Cardinality({ i \in 1..Len(queue) : queue[i].id = f })
Occurrences(seq, f) == Cardinality({ i \in 1..Len(seq) : seq[i] = f })

\* C19: an admitted frame whose prediction has not been broadcast is either
\* in a slot, and then counted in inFlight and not in the queue, or in the
\* queue exactly once; once its prediction is broadcast it is in neither.
C19_OnePlace ==
  /\ inFlight = Cardinality(DOMAIN proc)
  /\ \A f \in 1..(nextId - 1) :
       /\ preds[f] = 0 =>
            IF InSlot(f) THEN QueueCopies(f) = 0 /\ incs[f] - decs[f] = 1
            ELSE QueueCopies(f) = 1 /\ incs[f] = 0
       /\ preds[f] >= 1 => ~InSlot(f) /\ QueueCopies(f) = 0

\* A frame that waited in the queue now holds a slot, while another frame
\* waits and a third has finished.
C19_Witness ==
  /\ \E f \in DOMAIN proc : Occurrences(queued, f) = 1 /\ QueueCopies(f) = 0
  /\ \E g \in 1..(nextId - 1) : QueueCopies(g) = 1 /\ ~InSlot(g)
  /\ \E h \in 1..(nextId - 1) : preds[h] = 1
  /\ inFlight = MAX_CONCURRENT

\* C20: no frame is dispatched, queued or given an inference call more than
\* once, and a frame whose failure (or success) has been broadcast is neither
\* queued nor in a slot again.
C20_NoRetry ==
  \A f \in 1..(nextId - 1) :
    /\ incs[f] <= 1
    /\ Occurrences(dispatched, f) <= 1
    /\ Occurrences(queued, f) <= 1
    /\ preds[f] <= 1
    /\ preds[f] = 1 => ~InSlot(f) /\ ~InQueue(f) /\ decs[f] = 1

\* A frame's inference call has just failed: the failure was broadcast once
\* and the frame is in no slot and not queued, while the frame that had waited
\* in the queue has been dispatched, once.
C20_Witness ==
  /\ \E f \in 1..(nextId - 1) :
       /\ preds[f] = 1
       /\ incs[f] = 1
       /\ ~InSlot(f)
       /\ ~InQueue(f)
       /\ req.op = "reject"
       /\ req.data = "infer"
       /\ out[1].frame = f
  /\ Len(queued) >= 1
  /\ Occurrences(dispatched, queued[1]) = 1

\* C21: the threshold a success prediction carries is the threshold the
\* frame's alert decision was made against, whatever updateThreshold events
\* interleave.
C21_PayloadThreshold ==
  \A i \in PredictionsOf(out, TRUE) :
    /\ out[i].frame \in DOMAIN decided
    /\ out[i].threshold = decided[out[i].frame].thr

\* C22: whatever 'updateThreshold' payloads arrive, ALERT_THRESHOLD is an
\* integer.
C22_ThresholdIsInteger == ALERT_THRESHOLD # NaN

\* The first two frames hold a slot each for as long as neither has finished.
TwoSlotsHeld ==
  (nextId >= 3 /\ decs[1] = 0 /\ decs[2] = 0) => InSlot(1) /\ InSlot(2)

\* C23: nothing orders two frames that hold separate slots: the first two
\* frames are suspended side by side, and the handler run in which one frame
\* leaves processFrameAndEmit neither waits for nor touches a frame that was
\* admitted before it and is still suspended. Broadcasts out of submission
\* order are therefore reachable.
C23_NoOrderEnforced ==
  /\ []TwoSlotsHeld
  /\ [][\A g \in DOMAIN proc :
          g \notin DOMAIN proc' =>
            \A f \in DOMAIN proc \ {g} :
              /\ f \in DOMAIN proc'
              /\ proc'[f] = proc[f]
              /\ preds'[f] = preds[f]]_vars

\* Frame 1 was submitted and dispatched before frame 2, each into a slot of
\* its own, and its success prediction has just been broadcast, after the
\* one of frame 2.
C23_Witness ==
  /\ Len(dispatched) >= 2
  /\ dispatched[1] = 1
  /\ dispatched[2] = 2
  /\ queued = <<>>
  /\ preds[2] = 1
  /\ preds[1] = 1
  /\ \E i \in PredictionsOf(out, TRUE) : out[i].frame = 1
  /\ \A i \in 1..Len(out) : out[i].frame # 2
  /\ req.op = ""

\* The last handler run rejected a submission for the full backlog.
JustRejected ==
  /\ req.op = "frame"
  /\ Len(out) = 1
  /\ out[1].ev = "prediction"
  /\ out[1].error = "Server busy, frame dropped"

\* C24: between handler runs a non-empty queue means every slot is busy: no
\* frame waits while a slot is free, and a submission is rejected for the
\* full backlog only when every slot is busy.
C24_WorkConserving ==
  /\ Len(queue) > 0 => inFlight = MAX_CONCURRENT
  /\ JustRejected => inFlight = MAX_CONCURRENT

\* A submission has just been rejected with every slot busy, after a frame
\* had completed and the frame queued behind it had taken its slot.
C24_Witness ==
  /\ JustRejected
  /\ inFlight = MAX_CONCURRENT
  /\ Completed >= 1
  /\ \E f \in DOMAIN proc : Occurrences(queued, f) = 1

\* C25: frames are dispatched in the order they were admitted, queued or
\* not: the dispatch order is increasing in admission number, so no frame
\* overtakes one that is waiting, and every waiting frame was admitted after
\* every frame dispatched so far.
C25_AdmissionOrder ==
  /\ \A i, j \in 1..Len(dispatched) : i < j => dispatched[i] < dispatched[j]
  /\ \A i \in 1..Len(queue), j \in 1..Len(dispatched) : dispatched[j] < queue[i].id
  /\ \A i, j \in 1..Len(queue) : i < j => queue[i].id < queue[j].id

\* Two frames went straight into slots, two were queued behind them, and all
\* four have been dispatched, in admission order.
C25_Witness ==
  /\ dispatched = << 1, 2, 3, 4 >>
  /\ queued = << 3, 4 >>

\* C26: a frame for which an alert was broadcast gets a success prediction:
\* no failure prediction is broadcast for a frame whose alert check fired.
C26_AlertThenSuccess ==
  \A i \in PredictionsOf(out, FALSE) :
    out[i].frame \in DOMAIN decided => ~decided[out[i].frame].alert

====
